---- MODULE Spec2Model ----
(***************************************************************************)
(* Authentication session core of the serverless template: the web        *)
(* AuthProvider (frontend/src/auth/AuthContext.tsx), the web API client    *)
(* (frontend/src/auth/api.ts), the Android MainActivity and the iOS        *)
(* AuthManager.  One behaviour is one run of one embedding; the embedding  *)
(* is fixed by the variable platform.                                      *)
(***************************************************************************)
EXTENDS Integers, Sequences, FiniteSets, TLC

VARIABLES
    platform,     \* "web" | "android" | "ios"
    config,       \* the configuration strings ("" when a field is not set)
    now,          \* Date.now() / System.currentTimeMillis(), milliseconds
    store,        \* the three persisted entries (localStorage / core token slot)
    user,         \* web: the React state `user`
    isLoading,    \* the isLoading flag of the embedding
    pagePc,       \* web: "init" -> "cb" -> "ready" (effects run in order)
    location,     \* web: window.location (pathname, ?code=)
    running,      \* web: the handler the event loop is running ("idle" when none)
    saveStep,     \* web: handleCallback's position in its three setItem calls
    clearStep,    \* web: logout's position in its three removeItem calls
    loaded,       \* web: what the mount effect read and when
    xch,          \* token exchanges under way: slot -> progress of one exchange
    lastDone,     \* the exchange that finished last
    posts,        \* the token-endpoint POSTs in order: code and redirect_uri of each
    errorDetail,  \* what the last failure surfaced (console / errorMessage / log)
    nav,          \* external navigation requested ("none" | "login" | "logout")
    lastRequest,  \* web: the last outbound api() call
    isLoggedIn,   \* Android: MainActivity.isLoggedIn
    isAuthenticated, \* iOS: AuthManager.isAuthenticated
    userName,     \* Android / iOS: userName
    userEmail,    \* Android / iOS: userEmail
    expiresAt,    \* Android / iOS: AuthTokens.expiresAt held by the core
    authSession,  \* iOS: the ASWebAuthenticationSession that is presented
    authCode      \* Android app module: MainActivity.authCode

vars == <<platform, config, now, store, user, isLoading, pagePc, location,
          running, saveStep, clearStep, loaded, xch, lastDone, posts, errorDetail, nav, lastRequest,
          isLoggedIn, isAuthenticated, userName, userEmail, expiresAt, authSession, authCode>>

webVars == <<user, running, saveStep, clearStep, loaded, lastRequest>>
mobileVars == <<isLoggedIn, isAuthenticated, userName, userEmail, expiresAt, authSession, authCode>>

-----------------------------------------------------------------------------
(* Bounds *)

MaxTicks == 2          \* the clock takes the values 0, 500, .., 500 * MaxTicks
MaxInFlight == 2       \* exchanges that are under way at the same time
MaxPosts == 2          \* token-endpoint POSTs per run

ClockValues == {k * 500 : k \in 0..MaxTicks}
Slots == 1..MaxInFlight

-----------------------------------------------------------------------------
(* Constants of the program *)

ACCESS_TOKEN_KEY == "auth_access_token"
ID_TOKEN_KEY == "auth_id_token"
REFRESH_TOKEN_KEY == "auth_refresh_token"
Keys == {ACCESS_TOKEN_KEY, ID_TOKEN_KEY, REFRESH_TOKEN_KEY}

MsPerSec == 1000

Null == "<null>"            \* JS null: getItem of a missing key, user = null
Undef == "<undefined>"      \* JS undefined: a field the JSON object lacks

-----------------------------------------------------------------------------
(* Token strings.  A token string is named by a string of the model; Shape *)
(* gives what the decoding steps of the code see in it: whether            *)
(* split('.')[1] exists, the alphabet of that segment, what JSON.parse     *)
(* makes of the decoded text and the claims of the resulting object.       *)

NoClaims == [exp |-> [t |-> "none", v |-> 0], sub |-> Undef, email |-> Undef, name |-> Undef]

Opaque == [hasPayload |-> FALSE, alphabet |-> "std", json |-> "bad", claims |-> NoClaims]

Jwt(alphabet, exp, sub, email, name) ==
    [hasPayload |-> TRUE, alphabet |-> alphabet, json |-> "object",
     claims |-> [exp |-> exp, sub |-> sub, email |-> email, name |-> name]]

NumExp(n) == [t |-> "num", v |-> n]
StrExp(n) == [t |-> "numstr", v |-> n]
NoExp == [t |-> "none", v |-> 0]

AccessTokens == {"acc_exp1", "acc_exp2", "acc_url_exp2", "acc_noexp", "acc_strexp2", "acc_garbled"}
IdTokens == {"id_u1", "id_u2", "id_garbled"}
RefreshTokens == {"ref_1", "ref_2"}
TokenStrings == AccessTokens \cup IdTokens \cup RefreshTokens \cup {"undefined"}

Shape(token) ==
    CASE token = "acc_exp1"     -> Jwt("std", NumExp(1), "u1", Undef, Undef)
      [] token = "acc_exp2"     -> Jwt("std", NumExp(2), "u2", Undef, Undef)
      [] token = "acc_url_exp2" -> Jwt("url", NumExp(2), "u1", Undef, Undef)
      [] token = "acc_noexp"    -> Jwt("std", NoExp, "u1", Undef, Undef)
      [] token = "acc_strexp2"  -> Jwt("std", StrExp(2), "u1", Undef, Undef)
      [] token = "acc_garbled"  -> [hasPayload |-> TRUE, alphabet |-> "bad", json |-> "bad", claims |-> NoClaims]
      [] token = "id_u1"        -> Jwt("std", NumExp(1), "u1", "u1@example.com", "User One")
      [] token = "id_u2"        -> Jwt("url", NumExp(2), "u2", "u2@example.com", Undef)
      [] token = "id_garbled"   -> [hasPayload |-> TRUE, alphabet |-> "std", json |-> "bad", claims |-> NoClaims]
      [] OTHER                  -> Opaque

-----------------------------------------------------------------------------
(* Claims decoding (AuthContext.tsx) *)

NullPayload == [isNull |-> TRUE, claims |-> NoClaims]

\* Variant: the payload segment is handed to atob as it is.
parseJwt_NoUrlSafe(token) ==
    LET s == Shape(token) IN
    IF token \in {Null, Undef} THEN NullPayload
    ELSE IF ~s.hasPayload THEN NullPayload
    ELSE IF s.alphabet # "std" THEN NullPayload
    ELSE IF s.json # "object" THEN NullPayload
    ELSE [isNull |-> FALSE, claims |-> s.claims]

\* parseJwt: split('.')[1], URL-safe alphabet mapped to the standard one,
\* atob, JSON.parse; every exception is caught and yields null.  A token
\* that is not a string (undefined) throws at token.split and yields null.
parseJwt(token) ==
    LET s == Shape(token) IN
    IF token \in {Null, Undef} THEN NullPayload
    ELSE IF ~s.hasPayload THEN NullPayload
    ELSE IF s.alphabet = "bad" THEN NullPayload
    ELSE IF s.json # "object" THEN NullPayload
    ELSE [isNull |-> FALSE, claims |-> s.claims]

\* Variant: a payload without a numeric exp counts as fresh.
isTokenExpired_MissingExpFresh(token, t) ==
    LET payload == parseJwt(token) IN
    IF payload.isNull THEN TRUE
    ELSE IF payload.claims.exp.t # "num" THEN FALSE
    ELSE t >= payload.claims.exp.v * MsPerSec

\* isTokenExpired: true unless the payload decodes and typeof exp is number.
isTokenExpired(token, t) ==
    LET payload == parseJwt(token) IN
    IF payload.isNull \/ payload.claims.exp.t # "num" THEN TRUE
    ELSE t >= payload.claims.exp.v * MsPerSec

NullUser == [id |-> Null, email |-> Null, name |-> Null]

\* Variant: email taken from the name claim.
getUserFromToken_EmailFromName(idToken) ==
    LET payload == parseJwt(idToken) IN
    IF payload.isNull THEN NullUser
    ELSE [id |-> payload.claims.sub, email |-> payload.claims.name, name |-> payload.claims.name]

\* Variant: the claims are projected without the null check.
getUserFromToken_NoNullCheck(idToken) ==
    LET payload == parseJwt(idToken) IN
    [id |-> payload.claims.sub, email |-> payload.claims.email, name |-> payload.claims.name]

\* getUserFromToken: the {id: sub, email, name} projection, null when the
\* payload does not decode.
getUserFromToken(idToken) ==
    LET payload == parseJwt(idToken) IN
    IF payload.isNull THEN NullUser
    ELSE [id |-> payload.claims.sub, email |-> payload.claims.email, name |-> payload.claims.name]

\* JS truthiness of a value read from localStorage or from a JSON field.
Truthy(v) == v \notin {Null, Undef, ""}

\* localStorage.setItem converts its value to a string.
ToStorageString(v) == IF v = Undef THEN "undefined" ELSE IF v = Null THEN "null" ELSE v

\* AuthProvider.getAccessToken (the context's accessor): reads only.
CtxGetAccessToken(st, t) ==
    LET token == st[ACCESS_TOKEN_KEY] IN
    IF Truthy(token) /\ ~isTokenExpired(token, t) THEN token ELSE Null

-----------------------------------------------------------------------------
(* api.ts *)

\* JSON.parse(atob(token.split('.')[1])) of api.ts: atob is applied to the
\* segment as it is, so the URL-safe alphabet makes it throw.
ApiDecode(token) ==
    LET s == Shape(token) IN
    IF ~s.hasPayload THEN "throws"
    ELSE IF s.alphabet # "std" THEN "throws"
    ELSE IF s.json = "bad" THEN "throws"
    ELSE IF s.json = "null" THEN "null"
    ELSE "object"

\* payload.exp * 1000 in JS arithmetic: undefined gives NaN, a numeric
\* string is converted to its number.
ExpTimesThousand(exp) ==
    IF exp.t = "none" THEN [nan |-> TRUE, v |-> 0]
    ELSE [nan |-> FALSE, v |-> exp.v * MsPerSec]

\* getAccessToken of api.ts: the token it returns and the store it leaves.
ApiGetAccessToken(st, t) ==
    LET token == st[ACCESS_TOKEN_KEY]
        d == ApiDecode(token)
        e == ExpTimesThousand(Shape(token).claims.exp)
    IN  IF ~Truthy(token) THEN [token |-> Null, store |-> st]
        ELSE IF d # "object" THEN [token |-> Null, store |-> st]
        ELSE IF ~e.nan /\ t >= e.v
             THEN [token |-> Null, store |-> [st EXCEPT ![ACCESS_TOKEN_KEY] = Null]]
        ELSE [token |-> token, store |-> st]

NoRequest == [made |-> FALSE, sent |-> FALSE, requireAuth |-> FALSE, bearer |-> Null, thrown |-> "none", at |-> 0]

\* Variant: requireAuth is not looked at; a request without a token is sent.
ApiRequest_IgnoresRequireAuth(st, t, requireAuth) ==
    LET r == ApiGetAccessToken(st, t) IN
    [made |-> TRUE, sent |-> TRUE, requireAuth |-> requireAuth,
     bearer |-> IF Truthy(r.token) THEN r.token ELSE Null, thrown |-> "none", at |-> t]

\* api(): attaches Authorization: Bearer when getAccessToken yields a token,
\* throws 'Authentication required' when it does not and requireAuth is set.
ApiRequest(st, t, requireAuth) ==
    LET r == ApiGetAccessToken(st, t) IN
    IF Truthy(r.token)
    THEN [made |-> TRUE, sent |-> TRUE, requireAuth |-> requireAuth, bearer |-> r.token, thrown |-> "none", at |-> t]
    ELSE IF requireAuth
    THEN [made |-> TRUE, sent |-> FALSE, requireAuth |-> requireAuth, bearer |-> Null, thrown |-> "Authentication required", at |-> t]
    ELSE [made |-> TRUE, sent |-> TRUE, requireAuth |-> requireAuth, bearer |-> Null, thrown |-> "none", at |-> t]

-----------------------------------------------------------------------------
(* Configuration *)

\* The build environment of the frontend: each VITE_COGNITO_* variable is a
\* string or is not set.
EnvOf(userPoolId, clientId, domain) ==
    [VITE_COGNITO_USER_POOL_ID |-> userPoolId, VITE_COGNITO_CLIENT_ID |-> clientId,
     VITE_COGNITO_DOMAIN |-> domain]

\* All three variables set; the .env.production of the README, which sets
\* the domain and the client id; nothing set.
FullEnv == EnvOf("us-east-1_pool", "xxxxx", "https://myapp-dev.auth.example")
ReadmeFrontendEnv == EnvOf(Undef, "xxxxx", "https://myapp-dev.auth.example")
NoEnv == EnvOf(Undef, Undef, Undef)

WebEnvs == {FullEnv, ReadmeFrontendEnv, NoEnv}

\* import.meta.env.X || ''
OrEmpty(v) == IF Truthy(v) THEN v ELSE ""

\* AUTH_CONFIG
AUTH_CONFIG(env) ==
    [userPoolId |-> OrEmpty(env.VITE_COGNITO_USER_POOL_ID),
     clientId |-> OrEmpty(env.VITE_COGNITO_CLIENT_ID),
     domain |-> OrEmpty(env.VITE_COGNITO_DOMAIN)]

WebConfigs == {AUTH_CONFIG(env) : env \in WebEnvs}

\* The mobile embeddings pass the Cognito domain and the client id to the
\* core: the values of the README, or the empty strings of the template.
MobileConfigs ==
    { [userPoolId |-> "", clientId |-> "xxxxx", domain |-> "https://myapp-dev.auth.example"],
      [userPoolId |-> "", clientId |-> "", domain |-> ""] }

\* a && b of JavaScript: the first operand when it is falsy, else the second.
JsAnd(a, b) == IF Truthy(a) THEN b ELSE a

\* Variant: the pool identifier is not looked at.
isAuthConfigured_NoPoolCheck(c) == Truthy(JsAnd(c.clientId, c.domain))

\* isAuthConfigured: userPoolId && clientId && domain, used as a condition.
isAuthConfigured(c) == Truthy(JsAnd(JsAnd(c.userPoolId, c.clientId), c.domain))

-----------------------------------------------------------------------------
(* The token endpoint's answers *)

ExpiresIn(n) == [present |-> TRUE, v |-> n]
NoExpiresIn == [present |-> FALSE, v |-> 0]

HttpResponse(status, json, access, id, refresh, expiresIn, body) ==
    [kind |-> "http", status |-> status, json |-> json, access_token |-> access,
     id_token |-> id, refresh_token |-> refresh, expires_in |-> expiresIn, body |-> body]

RespFull      == HttpResponse(200, "object", "acc_exp2", "id_u1", "ref_2", ExpiresIn(2), "tokens")
RespNoRefresh == HttpResponse(200, "object", "acc_exp2", "id_u2", Undef, ExpiresIn(2), "tokens-no-refresh")
RespEmpty     == HttpResponse(200, "object", Undef, Undef, Undef, NoExpiresIn, "{}")
RespMalformed == HttpResponse(200, "bad", Undef, Undef, Undef, NoExpiresIn, "<html>")
Resp400       == HttpResponse(400, "object", Undef, Undef, Undef, NoExpiresIn, "invalid_grant")
RespNetErr    == [HttpResponse(0, "bad", Undef, Undef, Undef, NoExpiresIn, "") EXCEPT !.kind = "neterr"]
NoResp        == [HttpResponse(0, "bad", Undef, Undef, Undef, NoExpiresIn, "") EXCEPT !.kind = "none"]

\* A 2xx answer whose identity token does not decode, and one without
\* expires_in.
RespGarbledId == HttpResponse(200, "object", "acc_exp2", "id_garbled", Undef, ExpiresIn(2), "tokens-bad-id")
RespNoExpiresIn == HttpResponse(200, "object", "acc_exp2", "id_u2", Undef, NoExpiresIn, "tokens-no-expiry")

\* A 2xx body that is JSON without the token fields (RespEmpty) and one that
\* is not JSON (RespMalformed) differ on the web only, which in turn never
\* reads expires_in: there the answer without a refresh token has it, on
\* Android and iOS it has neither.
Responses == {RespFull, RespNoRefresh, RespEmpty, RespMalformed, Resp400, RespNetErr, RespGarbledId}
MobileResponses == {RespFull, RespNoExpiresIn, RespMalformed, Resp400, RespNetErr}

\* response.ok
ResponseOk(r) == r.kind = "http" /\ r.status >= 200 /\ r.status <= 299

-----------------------------------------------------------------------------
(* State *)

EmptyStore == [k \in Keys |-> Null]

StoreOf(access, id, refresh) ==
    [k \in Keys |-> IF k = ACCESS_TOKEN_KEY THEN access ELSE IF k = ID_TOKEN_KEY THEN id ELSE refresh]

\* What an earlier run of the program can have left in the store: nothing,
\* or the tokens of a completed exchange.
PriorStores ==
    { EmptyStore,
      StoreOf("acc_exp1", "id_u1", "ref_1"),
      StoreOf("acc_noexp", "id_u1", Null),
      StoreOf("acc_url_exp2", "id_u1", "ref_1"),
      StoreOf("acc_strexp2", "id_u2", Null),
      StoreOf("acc_exp2", "id_garbled", Null),
      StoreOf("acc_garbled", "id_u1", Null) }
MobilePriorStores ==
    PriorStores \ {StoreOf("acc_noexp", "id_u1", Null), StoreOf("acc_strexp2", "id_u2", Null),
                   StoreOf("acc_garbled", "id_u1", Null)}

Codes == {"abc123", "xyz789"}

WebLocations == { [path |-> "/", code |-> Null], [path |-> "/callback", code |-> "abc123"] }

\* Android: the data URI of the intent the activity is created with.
NoIntent == [path |-> "none", code |-> Null]
LaunchIntents == { NoIntent, [path |-> "myapp://auth", code |-> "abc123"] }

\* Deep links that reach the activity of the app module: the redirect of the
\* authorization request (myapp://auth?code=...), the same without a code,
\* and a trialstream://auth?code=... link.
AppIntents ==
    { [path |-> "myapp://auth", code |-> c] : c \in Codes \cup {Null} }
      \cup { [path |-> "trialstream://auth", code |-> "abc123"] }

NoError == [where |-> "none", status |-> 0, body |-> ""]

NoSave == [step |-> 0, slot |-> 0]

NotLoaded == [ran |-> FALSE, access |-> Null, at |-> 0]

\* A slot: pc is the position of the exchange, touched records whether a
\* step of this exchange attempt has changed the stored tokens or the
\* published authenticated signal.
FreeSlot == [pc |-> "free", code |-> Null, resp |-> NoResp, touched |-> FALSE]

\* The exchange that finished last: its outcome, the HTTP status it got (0
\* when it got none), and the slot's history.
NoneDone == [outcome |-> "none", status |-> 0, touched |-> FALSE]

\* The web page, the Android activity with the token exchange, the Android
\* activity of the app module, the iOS AuthManager.
Platforms == {"web", "android", "androidApp", "ios"}

Init ==
    /\ platform \in Platforms
    /\ config \in (IF platform = "web" THEN WebConfigs ELSE MobileConfigs)
    /\ now = 0
    /\ store \in (IF platform = "web" THEN PriorStores ELSE MobilePriorStores)
    /\ user = NullUser
    /\ isLoading = (platform = "web")
    /\ pagePc = "init"
    /\ location \in (CASE platform = "web" -> WebLocations
                        [] platform = "android" -> LaunchIntents
                        [] platform = "androidApp" -> {NoIntent} \cup AppIntents
                        [] OTHER -> {NoIntent})
    /\ running = "idle"
    /\ saveStep = NoSave
    /\ clearStep = 0
    /\ loaded = NotLoaded
    /\ xch = [s \in Slots |-> FreeSlot]
    /\ lastDone = NoneDone
    /\ posts = <<>>
    /\ errorDetail = NoError
    /\ nav = "none"
    /\ lastRequest = NoRequest
    /\ isLoggedIn = FALSE
    /\ isAuthenticated = FALSE
    /\ userName = Null
    /\ userEmail = Null
    /\ expiresAt = 0
    /\ authSession = "none"
    /\ authCode = Null

-----------------------------------------------------------------------------
(* Readers and exchange bookkeeping *)

\* isAuthenticated as the embedding publishes it (web: !!user).
IsAuthenticatedSignal ==
    CASE platform = "web" -> user # NullUser
      [] platform = "android" -> isLoggedIn
      [] OTHER -> isAuthenticated

\* The lowest free slot takes the next exchange.
HasFreeSlot == \E s \in Slots : xch[s].pc = "free"
NextSlot == CHOOSE s \in Slots : xch[s].pc = "free" /\ \A q \in Slots : q < s => xch[q].pc # "free"
CanPost == HasFreeSlot /\ Len(posts) < MaxPosts

\* This step changes the stored tokens or the authenticated signal.
Touches == store' # store \/ IsAuthenticatedSignal' # IsAuthenticatedSignal

\* The redirect URI of the embedding: AUTH_CONFIG.redirectUri (the origin
\* followed by /callback) on the web, myapp://auth on Android and iOS.
REDIRECT_URI == IF platform = "web" THEN "/callback" ELSE "myapp://auth"

\* The POST to {domain}/oauth2/token for `code`.
PostToken(code) ==
    /\ CanPost
    /\ xch' = [xch EXCEPT ![NextSlot] = [pc |-> "posted", code |-> code, resp |-> NoResp,
                                         touched |-> Touches]]
    /\ posts' = Append(posts, [code |-> code, redirect_uri |-> REDIRECT_URI])

\* The exchange in slot s is over.
Finish(s, outcome) ==
    /\ lastDone' = [outcome |-> outcome, status |-> xch[s].resp.status,
                    touched |-> xch[s].touched \/ Touches]
    /\ xch' = [xch EXCEPT ![s] = FreeSlot]

\* An exchange that fails before any request is made.
FinishAtOnce ==
    /\ lastDone' = [outcome |-> "failure", status |-> 0, touched |-> Touches]
    /\ UNCHANGED <<xch, posts>>

-----------------------------------------------------------------------------
(* Environment *)

Tick ==
    /\ now + 500 \in ClockValues
    /\ now' = now + 500
    /\ UNCHANGED <<mobileVars, webVars, platform, config, store, isLoading, pagePc, location,
                   xch, lastDone, posts, errorDetail, nav>>

\* The identity provider answers an outstanding POST (or the call fails).
NetworkRespond(s, r) ==
    /\ xch[s].pc = "posted"
    /\ xch' = [xch EXCEPT ![s].pc = "responded", ![s].resp = r]
    /\ UNCHANGED <<mobileVars, webVars, platform, config, now, store, isLoading, pagePc, location,
                   lastDone, posts, errorDetail, nav>>

Environment ==
    \/ Tick
    \/ \E s \in Slots, r \in (IF platform = "web" THEN Responses ELSE MobileResponses) : NetworkRespond(s, r)

-----------------------------------------------------------------------------
(* Web: AuthProvider *)

\* Handlers run to completion: a new one starts only when none is running.
EventLoopFree == running = "idle"

\* Variant: setUser is called whenever an identity token is stored, also on
\* the branch that clears the keys.
LoadSession_UserOutsideIf(st, t, u) ==
    LET idToken == st[ID_TOKEN_KEY]
        accessToken == st[ACCESS_TOKEN_KEY]
    IN  IF Truthy(idToken) /\ Truthy(accessToken) /\ ~isTokenExpired(accessToken, t)
        THEN [store |-> st, user |-> getUserFromToken(idToken)]
        ELSE [store |-> EmptyStore, user |-> IF Truthy(idToken) THEN getUserFromToken(idToken) ELSE u]

\* The body of the mount effect once configuration is present (load): the
\* store it leaves and the user state it leaves, u being the user state it
\* finds.  With both tokens stored and the access token unexpired it sets
\* the user; otherwise it removes the three keys and leaves the user state.
LoadSession(st, t, u) ==
    LET idToken == st[ID_TOKEN_KEY]
        accessToken == st[ACCESS_TOKEN_KEY]
    IN  IF Truthy(idToken) /\ Truthy(accessToken) /\ ~isTokenExpired(accessToken, t)
        THEN [store |-> st, user |-> getUserFromToken(idToken)]
        ELSE [store |-> EmptyStore, user |-> u]

\* The mount effect that restores the session from localStorage (load).
WebInitEffect ==
    /\ platform = "web" /\ pagePc = "init" /\ EventLoopFree
    /\ pagePc' = "cb"
    /\ isLoading' = FALSE
    /\ IF ~isAuthConfigured(config)
       THEN UNCHANGED <<store, user, loaded>>
       ELSE /\ loaded' = [ran |-> TRUE, access |-> store[ACCESS_TOKEN_KEY], at |-> now]
            /\ store' = LoadSession(store, now, user).store
            /\ user' = LoadSession(store, now, user).user
    /\ UNCHANGED <<mobileVars, platform, config, now, location, running, saveStep, clearStep,
                   xch, lastDone, posts, errorDetail, nav, lastRequest>>

\* Variant: the callback is handled without looking at the configuration.
WebCallbackEffect_NoConfigCheck ==
    /\ platform = "web" /\ pagePc = "cb" /\ EventLoopFree
    /\ pagePc' = "ready"
    /\ UNCHANGED <<mobileVars, webVars, platform, config, now, store, location, lastDone,
                   errorDetail, nav>>
    /\ IF Truthy(location.code) /\ location.path = "/callback"
       THEN /\ isLoading' = TRUE
            /\ PostToken(location.code)
       ELSE UNCHANGED <<isLoading, xch, posts>>

\* The mount effect that handles the OAuth callback, up to its await fetch.
WebCallbackEffect ==
    /\ platform = "web" /\ pagePc = "cb" /\ EventLoopFree
    /\ pagePc' = "ready"
    /\ UNCHANGED <<mobileVars, webVars, platform, config, now, store, location, lastDone,
                   errorDetail, nav>>
    /\ IF isAuthConfigured(config) /\ Truthy(location.code) /\ location.path = "/callback"
       THEN /\ isLoading' = TRUE
            /\ PostToken(location.code)
       ELSE UNCHANGED <<isLoading, xch, posts>>

\* Variant: the failure branches return without setIsLoading(false).
WebExchangeSettle_FlagLeftSet(s) ==
    /\ platform = "web" /\ pagePc = "ready" /\ EventLoopFree
    /\ xch[s].pc = "responded"
    /\ UNCHANGED <<mobileVars, platform, config, now, user, pagePc, location, posts, nav,
                   lastRequest, clearStep, loaded>>
    /\ LET r == xch[s].resp IN
       IF ResponseOk(r) /\ r.json = "object"
       THEN /\ store' = [store EXCEPT ![ACCESS_TOKEN_KEY] = ToStorageString(r.access_token)]
            /\ running' = "handleCallback"
            /\ saveStep' = [step |-> 1, slot |-> s]
            /\ xch' = [xch EXCEPT ![s].pc = "saving", ![s].touched = @ \/ Touches]
            /\ UNCHANGED <<isLoading, errorDetail, lastDone>>
       ELSE /\ errorDetail' = [where |-> "console", status |-> 0, body |-> "exception"]
            /\ UNCHANGED <<store, running, saveStep, isLoading>>
            /\ Finish(s, "failure")

\* handleCallback after the fetch settles: the failure branches run to
\* their end; the success branch performs its first setItem and goes on in
\* WebSaveStep within the same run of the handler.
WebExchangeSettle(s) ==
    /\ platform = "web" /\ pagePc = "ready" /\ EventLoopFree
    /\ xch[s].pc = "responded"
    /\ UNCHANGED <<mobileVars, platform, config, now, user, pagePc, location, posts, nav,
                   lastRequest, clearStep, loaded>>
    /\ LET r == xch[s].resp IN
       IF ResponseOk(r) /\ r.json = "object"
       THEN /\ store' = [store EXCEPT ![ACCESS_TOKEN_KEY] = ToStorageString(r.access_token)]
            /\ running' = "handleCallback"
            /\ saveStep' = [step |-> 1, slot |-> s]
            /\ xch' = [xch EXCEPT ![s].pc = "saving", ![s].touched = @ \/ Touches]
            /\ UNCHANGED <<isLoading, errorDetail, lastDone>>
       ELSE /\ errorDetail' = IF r.kind = "http" /\ ~ResponseOk(r)
                              THEN [where |-> "console", status |-> 0, body |-> r.body]
                              ELSE [where |-> "console", status |-> 0, body |-> "exception"]
            /\ isLoading' = FALSE
            /\ UNCHANGED <<store, running, saveStep>>
            /\ Finish(s, "failure")

\* The rest of the success branch: the second and third setItem, setUser,
\* history.replaceState and setIsLoading(false).
WebSaveStep ==
    /\ platform = "web" /\ running = "handleCallback" /\ saveStep.step > 0
    /\ UNCHANGED <<mobileVars, platform, config, now, pagePc, posts, errorDetail, nav,
                   lastRequest, clearStep, loaded>>
    /\ LET r == xch[saveStep.slot].resp IN
       IF saveStep.step = 1
       THEN /\ store' = [store EXCEPT ![ID_TOKEN_KEY] = ToStorageString(r.id_token)]
            /\ saveStep' = [saveStep EXCEPT !.step = 2]
            /\ UNCHANGED <<user, location, isLoading, lastDone, running>>
            /\ xch' = [xch EXCEPT ![saveStep.slot].touched = @ \/ Touches]
       ELSE /\ store' = IF Truthy(r.refresh_token)
                        THEN [store EXCEPT ![REFRESH_TOKEN_KEY] = ToStorageString(r.refresh_token)]
                        ELSE store
            /\ user' = getUserFromToken(r.id_token)
            /\ location' = [path |-> "/", code |-> Null]
            /\ isLoading' = FALSE
            /\ saveStep' = NoSave
            /\ running' = "idle"
            /\ Finish(saveStep.slot, "success")

\* What login() writes with console.warn when configuration is missing.
LoginWarning == [where |-> "console.warn", status |-> 0, body |-> "Auth not configured"]

\* Variant: login() navigates without looking at the configuration.
WebLogin_NoConfigCheck ==
    /\ platform = "web" /\ pagePc = "ready" /\ EventLoopFree /\ nav = "none"
    /\ nav' = "login"
    /\ UNCHANGED <<mobileVars, webVars, platform, config, now, store, isLoading, pagePc, location,
                   xch, lastDone, posts, errorDetail>>

\* login(): warn when not configured, else navigate to {domain}/login.
WebLogin ==
    /\ platform = "web" /\ pagePc = "ready" /\ EventLoopFree /\ nav = "none"
    /\ IF isAuthConfigured(config)
       THEN nav' = "login" /\ UNCHANGED errorDetail
       ELSE errorDetail' = LoginWarning /\ UNCHANGED nav
    /\ UNCHANGED <<mobileVars, webVars, platform, config, now, store, isLoading, pagePc, location,
                   xch, lastDone, posts>>

\* Variant: logout's removals start while another handler is between its
\* storage calls (storage calls that yield).
WebLogout_Interleaving ==
    /\ platform = "web" /\ pagePc = "ready" /\ clearStep = 0 /\ nav = "none"
    /\ store' = [store EXCEPT ![ACCESS_TOKEN_KEY] = Null]
    /\ running' = "logout"
    /\ clearStep' = 1
    /\ UNCHANGED <<mobileVars, platform, config, now, user, isLoading, pagePc, location,
                   xch, lastDone, posts, errorDetail, nav, lastRequest, saveStep, loaded>>

\* logout() starts: the first removeItem.
WebLogout ==
    /\ platform = "web" /\ pagePc = "ready" /\ EventLoopFree /\ nav = "none"
    /\ store' = [store EXCEPT ![ACCESS_TOKEN_KEY] = Null]
    /\ running' = "logout"
    /\ clearStep' = 1
    /\ UNCHANGED <<mobileVars, platform, config, now, user, isLoading, pagePc, location,
                   xch, lastDone, posts, errorDetail, nav, lastRequest, saveStep, loaded>>

\* Variant: the refresh token is not removed.
WebLogoutStep_KeepsRefresh ==
    /\ platform = "web" /\ running = "logout" /\ clearStep > 0
    /\ IF clearStep = 1
       THEN /\ store' = [store EXCEPT ![ID_TOKEN_KEY] = Null]
            /\ clearStep' = 2
            /\ UNCHANGED <<user, nav, running>>
       ELSE /\ store' = store
            /\ user' = NullUser
            /\ nav' = IF isAuthConfigured(config) THEN "logout" ELSE nav
            /\ clearStep' = 0
            /\ running' = "idle"
    /\ UNCHANGED <<mobileVars, platform, config, now, isLoading, pagePc, location,
                   xch, lastDone, posts, errorDetail, lastRequest, saveStep, loaded>>

\* Variant: the user state is kept.
WebLogoutStep_KeepsUser ==
    /\ platform = "web" /\ running = "logout" /\ clearStep > 0
    /\ IF clearStep = 1
       THEN /\ store' = [store EXCEPT ![ID_TOKEN_KEY] = Null]
            /\ clearStep' = 2
            /\ UNCHANGED <<user, nav, running>>
       ELSE /\ store' = [store EXCEPT ![REFRESH_TOKEN_KEY] = Null]
            /\ user' = user
            /\ nav' = IF isAuthConfigured(config) THEN "logout" ELSE nav
            /\ clearStep' = 0
            /\ running' = "idle"
    /\ UNCHANGED <<mobileVars, platform, config, now, isLoading, pagePc, location,
                   xch, lastDone, posts, errorDetail, lastRequest, saveStep, loaded>>

\* The rest of logout(): two more removeItem, setUser(null) and, when
\* configured, the navigation to {domain}/logout.
WebLogoutStep ==
    /\ platform = "web" /\ running = "logout" /\ clearStep > 0
    /\ IF clearStep = 1
       THEN /\ store' = [store EXCEPT ![ID_TOKEN_KEY] = Null]
            /\ clearStep' = 2
            /\ UNCHANGED <<user, nav, running>>
       ELSE /\ store' = [store EXCEPT ![REFRESH_TOKEN_KEY] = Null]
            /\ user' = NullUser
            /\ nav' = IF isAuthConfigured(config) THEN "logout" ELSE nav
            /\ clearStep' = 0
            /\ running' = "idle"
    /\ UNCHANGED <<mobileVars, platform, config, now, isLoading, pagePc, location,
                   xch, lastDone, posts, errorDetail, lastRequest, saveStep, loaded>>

\* The navigation requested by login() or logout() replaces the document.
WebUnload ==
    /\ platform = "web" /\ pagePc = "ready" /\ EventLoopFree /\ nav # "none"
    /\ pagePc' = "gone"
    /\ UNCHANGED <<mobileVars, webVars, platform, config, now, store, isLoading, location,
                   xch, lastDone, posts, errorDetail, nav>>

\* An outbound api() call of the application.
WebApiCall(requireAuth) ==
    /\ platform = "web" /\ pagePc \in {"init", "cb", "ready"} /\ EventLoopFree
    /\ lastRequest' = ApiRequest(store, now, requireAuth)
    /\ store' = ApiGetAccessToken(store, now).store
    /\ UNCHANGED <<mobileVars, platform, config, now, user, isLoading, pagePc, location,
                   running, saveStep, clearStep, loaded, xch, lastDone, posts, errorDetail, nav>>

WebNext ==
    \/ WebInitEffect
    \/ WebCallbackEffect
    \/ \E s \in Slots : WebExchangeSettle(s)
    \/ WebSaveStep
    \/ WebLogin
    \/ WebLogout
    \/ WebLogoutStep
    \/ WebUnload
    \/ \E ra \in BOOLEAN : WebApiCall(ra)

-----------------------------------------------------------------------------
(* The shared core behind the mobile embeddings (core/src/lib.rs) *)

CoreIsConfigured(c) == c.clientId # "" /\ c.domain # ""

\* Expiry of a token per the Claims Decoder: exp missing, non-numeric or
\* exp * 1000 <= now.
CoreIsExpired(token, t) ==
    LET s == Shape(token) IN
    IF token \in {Null, Undef} \/ ~s.hasPayload \/ s.alphabet = "bad" \/ s.json # "object" THEN TRUE
    ELSE IF s.claims.exp.t # "num" THEN TRUE
    ELSE s.claims.exp.v * MsPerSec <= t

\* set_auth_tokens: the token set is replaced as a whole.
CoreSetAuthTokens(access, id, refresh) == StoreOf(access, id, refresh)

\* clear_auth
CoreClearAuth == EmptyStore

\* is_authenticated: a present, unexpired access token.
CoreIsAuthenticated(st, t) ==
    st[ACCESS_TOKEN_KEY] # Null /\ ~CoreIsExpired(st[ACCESS_TOKEN_KEY], t)

\* get_current_user: the claims of the stored identity token; fails when
\* there is none or it does not decode.
CoreGetCurrentUser(st) ==
    LET idToken == st[ID_TOKEN_KEY]
        s == Shape(idToken)
    IN  IF idToken = Null \/ ~s.hasPayload \/ s.alphabet = "bad" \/ s.json # "object"
        THEN [ok |-> FALSE, name |-> Null, email |-> Null]
        ELSE [ok |-> TRUE,
              name |-> IF s.claims.name = Undef THEN Null ELSE s.claims.name,
              email |-> IF s.claims.email = Undef THEN Null ELSE s.claims.email]

-----------------------------------------------------------------------------
(* What both mobile embeddings do with a token response *)

DefaultExpiresIn == 3600

\* Variant: an absent expires_in counts as 0.
ExpiresAt_NoDefault(t, r) == (t \div MsPerSec) + (IF r.expires_in.present THEN r.expires_in.v ELSE 0)

\* expiresAt = now in seconds + expires_in (3600 when the field is absent)
ExpiresAt(t, r) == (t \div MsPerSec) + (IF r.expires_in.present THEN r.expires_in.v ELSE DefaultExpiresIn)

\* JSON with the string fields access_token and id_token.
DecodesAsTokenResponse(r) ==
    r.json = "object" /\ r.access_token # Undef /\ r.id_token # Undef

\* optString("refresh_token", null) / refresh_token: String?
OptString(v) == IF v = Undef THEN Null ELSE v

-----------------------------------------------------------------------------
(* Android: MainActivity *)

\* exchangeCodeForTokens(code) up to the POST of the launched coroutine;
\* getTokenEndpoint() fails in the coroutine when the core is not configured.
AndroidExchangeStart(code) ==
    /\ isLoading' = TRUE
    /\ IF CoreIsConfigured(config)
       THEN PostToken(code)
       ELSE /\ HasFreeSlot
            /\ xch' = [xch EXCEPT ![NextSlot] = [pc |-> "failing", code |-> code,
                                                 resp |-> NoResp, touched |-> Touches]]
            /\ UNCHANGED posts

\* onCreate: initialize the core, restore the session, handle the launch intent.
AndroidOnCreate ==
    /\ platform = "android" /\ pagePc = "init"
    /\ pagePc' = "ready"
    /\ UNCHANGED <<webVars, authCode, platform, config, now, store, location, lastDone, errorDetail, nav,
                   isAuthenticated, expiresAt, authSession>>
    /\ LET u == CoreGetCurrentUser(store) IN
       IF CoreIsAuthenticated(store, now) /\ u.ok
       THEN /\ userName' = u.name
            /\ userEmail' = u.email
            /\ isLoggedIn' = TRUE
       ELSE UNCHANGED <<userName, userEmail, isLoggedIn>>
    /\ IF location.path = "myapp://auth" /\ location.code # Null
       THEN AndroidExchangeStart(location.code)
       ELSE UNCHANGED <<isLoading, xch, posts>>

\* onNewIntent with myapp://auth?code=...
AndroidOnNewIntent(code) ==
    /\ platform = "android" /\ pagePc = "ready"
    /\ UNCHANGED <<webVars, mobileVars, platform, config, now, store, pagePc, location,
                   lastDone, errorDetail, nav>>
    /\ AndroidExchangeStart(code)

\* The coroutine, on its worker thread, reads and stores the response.
AndroidHandleResponse(s) ==
    /\ platform = "android" /\ xch[s].pc = "responded"
    /\ UNCHANGED <<webVars, authCode, platform, config, now, isLoading, pagePc, location, lastDone, posts, nav,
                   isLoggedIn, isAuthenticated, userName, userEmail, authSession>>
    /\ LET r == xch[s].resp
           st == CoreSetAuthTokens(r.access_token, r.id_token, OptString(r.refresh_token))
       IN  IF r.kind = "http" /\ r.status < 400 /\ DecodesAsTokenResponse(r)
           THEN /\ store' = st
                /\ expiresAt' = ExpiresAt(now, r)
                /\ IF CoreGetCurrentUser(st).ok
                   THEN /\ UNCHANGED errorDetail
                        /\ xch' = [xch EXCEPT ![s].pc = "publishing", ![s].touched = @ \/ Touches]
                   ELSE /\ errorDetail' = [where |-> "log", status |-> 0, body |-> "exception"]
                        /\ xch' = [xch EXCEPT ![s].pc = "failing", ![s].touched = @ \/ Touches]
           ELSE /\ errorDetail' = [where |-> "log", status |-> 0, body |-> "exception"]
                /\ UNCHANGED <<store, expiresAt>>
                /\ xch' = [xch EXCEPT ![s].pc = "failing"]

\* withContext(Dispatchers.Main): the result reaches the UI state.
AndroidPublish(s) ==
    /\ platform = "android" /\ xch[s].pc \in {"publishing", "failing"}
    /\ UNCHANGED <<webVars, authCode, platform, config, now, store, pagePc, location, posts, errorDetail, nav,
                   isAuthenticated, expiresAt, authSession>>
    /\ isLoading' = FALSE
    /\ IF xch[s].pc = "publishing"
       THEN LET u == CoreGetCurrentUser(StoreOf(xch[s].resp.access_token, xch[s].resp.id_token, Null)) IN
            /\ userName' = u.name
            /\ userEmail' = u.email
            /\ isLoggedIn' = TRUE
            /\ Finish(s, "success")
       ELSE /\ UNCHANGED <<userName, userEmail, isLoggedIn>>
            /\ Finish(s, "failure")

\* startOAuthFlow: open the authorization URL in a custom tab.
AndroidStartOAuthFlow ==
    /\ platform = "android" /\ pagePc = "ready" /\ nav = "none"
    /\ IF CoreIsConfigured(config)
       THEN nav' = "login" /\ UNCHANGED errorDetail
       ELSE errorDetail' = [where |-> "log", status |-> 0, body |-> "not configured"] /\ UNCHANGED nav
    /\ UNCHANGED <<webVars, mobileVars, platform, config, now, store, isLoading, pagePc, location,
                   xch, lastDone, posts>>

\* logout
AndroidLogout ==
    /\ platform = "android" /\ pagePc = "ready"
    /\ store' = CoreClearAuth
    /\ expiresAt' = 0
    /\ isLoggedIn' = FALSE
    /\ userName' = Null
    /\ userEmail' = Null
    /\ UNCHANGED <<webVars, authCode, platform, config, now, isLoading, pagePc, location, xch, lastDone, posts,
                   errorDetail, nav, isAuthenticated, authSession>>

\* The activity is destroyed (finish, configuration change, the system
\* reclaiming it).  MainActivity overrides no lifecycle callback besides
\* onCreate and onNewIntent, and the coroutines of exchangeCodeForTokens
\* live in GlobalScope, which no lifecycle cancels.
AndroidOnDestroy ==
    /\ platform = "android" /\ pagePc = "ready"
    /\ pagePc' = "destroyed"
    /\ UNCHANGED <<webVars, mobileVars, platform, config, now, store, isLoading, location,
                   xch, lastDone, posts, errorDetail, nav>>

AndroidNext ==
    \/ AndroidOnCreate
    \/ AndroidOnDestroy
    \/ \E c \in Codes : AndroidOnNewIntent(c)
    \/ \E s \in Slots : AndroidHandleResponse(s)
    \/ \E s \in Slots : AndroidPublish(s)
    \/ AndroidStartOAuthFlow
    \/ AndroidLogout

-----------------------------------------------------------------------------
(* Android, app module: MainActivity and MainScreen *)

\* handleIntent: the code of a trialstream://auth link is kept in authCode;
\* every other intent is ignored.
handleIntent(intent) ==
    IF intent.path = "trialstream://auth" /\ intent.code # Null THEN intent.code ELSE authCode

\* onCreate: initialize the core, handle the launch intent, compose
\* MainScreen (remember { mutableStateOf(isAuthenticated()) }).
AppOnCreate ==
    /\ platform = "androidApp" /\ pagePc = "init"
    /\ pagePc' = "composed"
    /\ authCode' = handleIntent(location)
    /\ isAuthenticated' = CoreIsAuthenticated(store, now)
    /\ UNCHANGED <<webVars, platform, config, now, store, isLoading, location, xch, lastDone,
                   posts, errorDetail, nav, isLoggedIn, userName, userEmail, expiresAt,
                   authSession>>

\* LaunchedEffect(Unit) of MainScreen: isAuthenticated and the user are read
\* from the core; a failing getCurrentUser is logged.
AppLaunchedEffect ==
    /\ platform = "androidApp" /\ pagePc = "composed"
    /\ pagePc' = "ready"
    /\ isAuthenticated' = CoreIsAuthenticated(store, now)
    /\ LET u == CoreGetCurrentUser(store) IN
       IF CoreIsAuthenticated(store, now) /\ u.ok
       THEN userName' = u.name /\ userEmail' = u.email /\ UNCHANGED errorDetail
       ELSE /\ UNCHANGED <<userName, userEmail>>
            /\ errorDetail' = IF CoreIsAuthenticated(store, now)
                              THEN [where |-> "log", status |-> 0, body |-> "Failed to get user"]
                              ELSE errorDetail
    /\ UNCHANGED <<webVars, platform, config, now, store, isLoading, location, xch, lastDone,
                   posts, nav, isLoggedIn, expiresAt, authSession, authCode>>

\* onNewIntent: handleIntent(intent).
AppOnNewIntent(intent) ==
    /\ platform = "androidApp" /\ pagePc \in {"composed", "ready"}
    /\ location' = intent
    /\ authCode' = handleIntent(intent)
    /\ UNCHANGED <<webVars, platform, config, now, store, isLoading, pagePc, xch, lastDone,
                   posts, errorDetail, nav, isLoggedIn, isAuthenticated, userName, userEmail,
                   expiresAt, authSession>>

\* startOAuthFlow: getAuthUrl(REDIRECT_URI) opened in a custom tab; a
\* failure of getAuthUrl is logged.
AppStartOAuthFlow ==
    /\ platform = "androidApp" /\ pagePc \in {"composed", "ready"} /\ nav = "none"
    /\ IF CoreIsConfigured(config)
       THEN nav' = "login" /\ UNCHANGED errorDetail
       ELSE errorDetail' = [where |-> "log", status |-> 0, body |-> "Failed to start OAuth flow"]
            /\ UNCHANGED nav
    /\ UNCHANGED <<webVars, mobileVars, platform, config, now, store, isLoading, pagePc, location,
                   xch, lastDone, posts>>

\* The Sign Out button of MainScreen, shown when isAuthenticated and a user
\* is set: logout() (clearAuth), isAuthenticated = false, user = null.
AppSignOut ==
    /\ platform = "androidApp" /\ pagePc = "ready"
    /\ ~isLoading /\ isAuthenticated /\ userEmail # Null
    /\ store' = CoreClearAuth
    /\ expiresAt' = 0
    /\ isAuthenticated' = FALSE
    /\ userName' = Null
    /\ userEmail' = Null
    /\ UNCHANGED <<webVars, platform, config, now, isLoading, pagePc, location, xch, lastDone,
                   posts, errorDetail, nav, isLoggedIn, authSession, authCode>>

AppNext ==
    \/ AppOnCreate
    \/ AppLaunchedEffect
    \/ \E intent \in AppIntents : AppOnNewIntent(intent)
    \/ AppStartOAuthFlow
    \/ AppSignOut

-----------------------------------------------------------------------------
(* iOS: AuthManager *)

\* loadUserInfo: userName and userEmail from the core; a failure is printed.
IosUserName(st) == IF CoreGetCurrentUser(st).ok THEN CoreGetCurrentUser(st).name ELSE userName
IosUserEmail(st) == IF CoreGetCurrentUser(st).ok THEN CoreGetCurrentUser(st).email ELSE userEmail

\* init
IosInit ==
    /\ platform = "ios" /\ pagePc = "init"
    /\ pagePc' = "ready"
    /\ IF CoreIsAuthenticated(store, now)
       THEN /\ isAuthenticated' = TRUE
            /\ userName' = IosUserName(store)
            /\ userEmail' = IosUserEmail(store)
       ELSE UNCHANGED <<isAuthenticated, userName, userEmail>>
    /\ UNCHANGED <<webVars, authCode, platform, config, now, store, isLoading, location, xch, lastDone, posts,
                   errorDetail, nav, isLoggedIn, expiresAt, authSession>>

\* startOAuthFlow / switchAccount up to webAuthSession.start()
IosPresentSession(kind) ==
    /\ platform = "ios" /\ pagePc = "ready" /\ authSession = "none"
    /\ IF CoreIsConfigured(config)
       THEN /\ isLoading' = TRUE
            /\ errorDetail' = NoError
            /\ authSession' = kind
            /\ nav' = "login"
       ELSE /\ isLoading' = FALSE
            /\ errorDetail' = [where |-> "errorMessage", status |-> 0, body |-> "Failed to start auth"]
            /\ UNCHANGED <<authSession, nav>>
    /\ UNCHANGED <<webVars, authCode, platform, config, now, store, pagePc, location, xch, lastDone, posts,
                   isLoggedIn, isAuthenticated, userName, userEmail, expiresAt>>

IosStartOAuthFlow == IosPresentSession("login")

IosSwitchAccount == IosPresentSession("switch")

\* exchangeCodeForTokens(code) up to its await of URLSession.data; st is
\* the store the call finds.
IosExchangeStart(code) ==
    IF CoreIsConfigured(config)
    THEN /\ isLoading' = TRUE
         /\ errorDetail' = NoError
         /\ UNCHANGED lastDone
         /\ PostToken(code)
    ELSE /\ isLoading' = FALSE
         /\ errorDetail' = [where |-> "errorMessage", status |-> 0, body |-> "Token exchange error"]
         /\ FinishAtOnce

\* Variant: switchAccount clears the stored session whatever the
\* authentication session returns.
IosSessionCallback_ClearsFirst(outcome) ==
    /\ platform = "ios" /\ authSession # "none"
    /\ authSession' = "none"
    /\ nav' = "none"
    /\ UNCHANGED <<webVars, authCode, platform, config, now, pagePc, location,
                   isLoggedIn, isAuthenticated, userName, userEmail>>
    /\ IF authSession = "switch"
       THEN store' = CoreClearAuth /\ expiresAt' = 0
       ELSE UNCHANGED <<store, expiresAt>>
    /\ IF outcome \in Codes
       THEN IosExchangeStart(outcome)
       ELSE /\ isLoading' = FALSE
            /\ errorDetail' = [where |-> "errorMessage", status |-> 0, body |-> "Auth error"]
            /\ UNCHANGED <<xch, lastDone, posts>>

\* The completion handler of the authentication session.
IosSessionCallback(outcome) ==
    /\ platform = "ios" /\ authSession # "none"
    /\ authSession' = "none"
    /\ nav' = "none"
    /\ UNCHANGED <<webVars, authCode, platform, config, now, pagePc, location,
                   isLoggedIn, isAuthenticated, userName, userEmail>>
    /\ IF outcome \in Codes
       THEN /\ IF authSession = "switch"
               THEN store' = CoreClearAuth /\ expiresAt' = 0
               ELSE UNCHANGED <<store, expiresAt>>
            /\ IosExchangeStart(outcome)
       ELSE /\ isLoading' = FALSE
            /\ errorDetail' = CASE outcome = "cancelled" -> errorDetail
                                [] outcome = "error" -> [where |-> "errorMessage", status |-> 0, body |-> "Auth error"]
                                [] OTHER -> [where |-> "errorMessage", status |-> 0, body |-> "No auth code received"]
            /\ UNCHANGED <<store, expiresAt, xch, lastDone, posts>>

\* The authorization code an iOS redirect carries.  AuthManager branches on
\* the presence of the code only and passes its value on, so one value
\* stands for all.
IosCodes == {"abc123"}

SessionOutcomes == IosCodes \cup {"cancelled", "error", "nocode"}

\* onOpenURL -> handleOAuthRedirect with myapp://auth?code=...
IosOpenURL(code) ==
    /\ platform = "ios" /\ pagePc = "ready"
    /\ UNCHANGED <<webVars, mobileVars, platform, config, now, store, pagePc, location, nav>>
    /\ IosExchangeStart(code)

\* exchangeCodeForTokens after the await.
IosExchangeFinish(s) ==
    /\ platform = "ios" /\ xch[s].pc = "responded"
    /\ isLoading' = FALSE
    /\ UNCHANGED <<webVars, authCode, platform, config, now, pagePc, location, posts, nav, isLoggedIn, authSession>>
    /\ LET r == xch[s].resp
           st == CoreSetAuthTokens(r.access_token, r.id_token, OptString(r.refresh_token))
       IN  IF r.kind = "http" /\ r.status = 200 /\ DecodesAsTokenResponse(r)
           THEN /\ store' = st
                /\ expiresAt' = ExpiresAt(now, r)
                /\ isAuthenticated' = TRUE
                /\ userName' = IosUserName(st)
                /\ userEmail' = IosUserEmail(st)
                /\ UNCHANGED errorDetail
                /\ Finish(s, "success")
           ELSE /\ errorDetail' = IF r.kind = "http" /\ r.status # 200
                                  THEN [where |-> "errorMessage", status |-> r.status, body |-> "Token exchange failed"]
                                  ELSE [where |-> "errorMessage", status |-> 0, body |-> "Token exchange error"]
                /\ UNCHANGED <<store, expiresAt, isAuthenticated, userName, userEmail>>
                /\ Finish(s, "failure")

\* logout
IosLogout ==
    /\ platform = "ios" /\ pagePc = "ready"
    /\ store' = CoreClearAuth
    /\ expiresAt' = 0
    /\ isAuthenticated' = FALSE
    /\ userName' = Null
    /\ userEmail' = Null
    /\ UNCHANGED <<webVars, authCode, platform, config, now, isLoading, pagePc, location, xch, lastDone, posts,
                   errorDetail, nav, isLoggedIn, authSession>>

IosNext ==
    \/ IosInit
    \/ IosStartOAuthFlow
    \/ IosSwitchAccount
    \/ \E o \in SessionOutcomes : IosSessionCallback(o)
    \/ \E c \in IosCodes : IosOpenURL(c)
    \/ \E s \in Slots : IosExchangeFinish(s)
    \/ IosLogout

-----------------------------------------------------------------------------

Next == Environment \/ WebNext \/ AndroidNext \/ AppNext \/ IosNext

Spec == Init /\ [][Next]_vars

\* One embedding at a time.
InitWeb == Init /\ platform = "web"
WebSystem == Environment \/ WebNext
WebSpec == InitWeb /\ [][WebSystem]_vars

InitAndroid == Init /\ platform = "android"
AndroidSystem == Environment \/ AndroidNext
AndroidSpec == InitAndroid /\ [][AndroidSystem]_vars

\* The activity of the app module makes no network call.
InitApp == Init /\ platform = "androidApp"
AppSystem == Tick \/ AppNext
AppSpec == InitApp /\ [][AppSystem]_vars

InitIos == Init /\ platform = "ios"
IosSystem == Environment \/ IosNext
IosSpec == InitIos /\ [][IosSystem]_vars

-----------------------------------------------------------------------------
(* Vocabulary of the properties *)

\* The payload segment decodes to a JSON object (base64url, padding optional).
Decodable(token) ==
    token \notin {Null, Undef} /\ Shape(token).hasPayload
    /\ Shape(token).alphabet \in {"std", "url"} /\ Shape(token).json = "object"

\* Expired as the design defines it: exp missing, non-numeric, or
\* exp * 1000 <= t; a token that does not decode has no exp.
ExpiredByClaims(token, t) ==
    \/ ~Decodable(token)
    \/ Shape(token).claims.exp.t # "num"
    \/ Shape(token).claims.exp.v * 1000 <= t

\* A token set with only some of its tokens: identity or refresh token
\* without an access token, or an access token without an identity token.
PartialTokenSet(st) ==
    \/ st[ACCESS_TOKEN_KEY] = Null /\ (st[ID_TOKEN_KEY] # Null \/ st[REFRESH_TOKEN_KEY] # Null)
    \/ st[ACCESS_TOKEN_KEY] # Null /\ st[ID_TOKEN_KEY] = Null

\* A token-endpoint POST is outstanding or its answer is not yet handled.
PostOutstanding(s) == xch[s].pc \in {"posted", "responded"}

-----------------------------------------------------------------------------
(* Properties *)

\* C1: at most one code exchange is in flight per controller; in particular
\* two deliveries of the same code never have two token-endpoint POSTs
\* outstanding for that code.
C1_SingleFlight ==
    \A s, q \in Slots :
        (s # q /\ PostOutstanding(s) /\ PostOutstanding(q)) => xch[s].code # xch[q].code

\* C2: load (the configured mount effect): when the stored access token is
\* absent or expired it removes all three keys and reports no session, and
\* it never reports a session whose access token is expired.
C2_LoadClearsExpired ==
    [][ (platform = "web" /\ pagePc = "init" /\ pagePc' = "cb" /\ isAuthConfigured(config)) =>
          /\ (store[ACCESS_TOKEN_KEY] = Null \/ ExpiredByClaims(store[ACCESS_TOKEN_KEY], now))
                => (store' = EmptyStore /\ user' = NullUser)
          /\ user' # NullUser
                => (store'[ACCESS_TOKEN_KEY] # Null /\ ~ExpiredByClaims(store'[ACCESS_TOKEN_KEY], now)) ]_vars

\* load has found an access token without exp, cleared the store and
\* reported no session.
C2_Witness ==
    /\ platform = "web" /\ pagePc = "cb"
    /\ loaded.ran /\ loaded.access = "acc_noexp"
    /\ store = EmptyStore /\ user = NullUser

\* C3: no outbound API request carries an Authorization: Bearer header
\* built from a token that is expired or has no numeric exp.
C3_NoBearerFromExpiredToken ==
    lastRequest.bearer # Null => ~ExpiredByClaims(lastRequest.bearer, lastRequest.at)

\* C4: isExpired(T) = (exp * 1000 <= now) for a numeric exp, and true when
\* exp is missing or non-numeric or the payload does not decode.
C4_IsExpired ==
    \A T \in TokenStrings :
        isTokenExpired(T, now) =
            IF Decodable(T) /\ Shape(T).claims.exp.t = "num"
            THEN Shape(T).claims.exp.v * 1000 <= now
            ELSE TRUE

\* The clock stands exactly at exp * 1000 of the stored access token and
\* load has judged it expired.
C4_Witness ==
    /\ loaded.ran /\ loaded.access = "acc_exp1" /\ loaded.at = 1000
    /\ now = 1000 /\ store = EmptyStore

\* C5: between operations the three keys never form a partial token set.
C5_NoPartialTokenSet ==
    (platform = "web" /\ EventLoopFree) => ~PartialTokenSet(store)

\* C6: an exchange answered with HTTP 400, begun unauthenticated, ends
\* unauthenticated with the store as it was and an error detail that
\* contains the status 400.
C6_Failure400 ==
    [][ \A s \in Slots :
          (platform = "web" /\ xch[s].pc = "responded" /\ xch[s].resp.status = 400
             /\ xch'[s].pc = "free" /\ ~IsAuthenticatedSignal) =>
          (~IsAuthenticatedSignal' /\ ~isLoading' /\ store' = store /\ errorDetail'.status = 400) ]_vars

\* C7: a failed exchange attempt has changed neither the stored tokens nor
\* the authenticated signal.
C7_FailureLeavesSession ==
    lastDone.outcome = "failure" => ~lastDone.touched

\* The last step of a successful exchange whose response is that of
\* scenario B (access token with exp in the future, identity token with sub
\* and email, no refresh_token).
ScenarioBCompletes ==
    /\ platform = "web" /\ saveStep.step = 2
    /\ xch[saveStep.slot].resp = RespNoRefresh
    /\ lastDone'.outcome = "success" /\ xch'[saveStep.slot].pc = "free"

\* C8 as stated: scenario B ends Authenticated with user.email the identity
\* token's email claim and all three keys in the store.
C8_AllThreeKeysStored ==
    [][ ScenarioBCompletes =>
          /\ IsAuthenticatedSignal' /\ ~isLoading'
          /\ user'.email = Shape(RespNoRefresh.id_token).claims.email
          /\ \A k \in Keys : store'[k] # Null ]_vars

\* C8 amended: scenario B ends Authenticated with user.email the identity
\* token's email claim; the store holds the response's access and identity
\* tokens and the refresh-token key is not written.
C8_ScenarioB ==
    [][ ScenarioBCompletes =>
          /\ IsAuthenticatedSignal' /\ ~isLoading'
          /\ user'.email = Shape(RespNoRefresh.id_token).claims.email
          /\ store'[ACCESS_TOKEN_KEY] = RespNoRefresh.access_token
          /\ store'[ID_TOKEN_KEY] = RespNoRefresh.id_token
          /\ store'[REFRESH_TOKEN_KEY] = store[REFRESH_TOKEN_KEY] ]_vars

\* Scenario B has completed on an empty store: signed in as u2, two keys.
C8_Witness ==
    /\ platform = "web" /\ lastDone.outcome = "success"
    /\ user.email = "u2@example.com"
    /\ store = StoreOf("acc_exp2", "id_u2", Null)

\* C9: while an exchange is under way every reader sees "not yet
\* authenticated": isAuthenticated is false, user is absent and
\* getAccessToken yields nothing.
C9_ReadersDuringExchange ==
    (platform = "web" /\ \E s \in Slots : PostOutstanding(s)) =>
        (~IsAuthenticatedSignal /\ user = NullUser /\ CtxGetAccessToken(store, now) = Null)

\* C10: the three writes of a save and the three removals of a clear are
\* never interleaved.
C10_SaveClearSerialized ==
    ~(saveStep.step > 0 /\ clearStep > 0)

\* logout is in the middle of its removals while the successful answer of
\* an exchange waits to be saved.
C10_Witness ==
    /\ clearStep > 0
    /\ \E s \in Slots : xch[s].pc = "responded" /\ ResponseOk(xch[s].resp) /\ xch[s].resp.json = "object"

\* C11: once the hosting UI is torn down, the result of an exchange that is
\* still in flight is discarded: no later step writes the stored tokens or
\* the state of the destroyed controller.
C11_TeardownDiscardsResult ==
    [][ pagePc = "destroyed" =>
          /\ store' = store
          /\ isLoggedIn' = isLoggedIn /\ userName' = userName /\ userEmail' = userEmail
          /\ isLoading' = isLoading ]_vars

\* The {id, email, name} projection of a decodable identity token's claims.
ClaimsProjection(idToken) ==
    [id |-> Shape(idToken).claims.sub, email |-> Shape(idToken).claims.email,
     name |-> Shape(idToken).claims.name]

\* The mount effect runs with configuration present.
ConfiguredStartup ==
    platform = "web" /\ pagePc = "init" /\ pagePc' = "cb" /\ isAuthConfigured(config)

LogoutCompletes ==
    platform = "web" /\ running = "logout" /\ clearStep = 2 /\ clearStep' = 0

\* C13: from every state, logout leaves the three keys absent and the user
\* discarded: right afterwards the controller is not authenticated and the
\* access-token accessors yield nothing.
C13_LogoutClears ==
    [][ LogoutCompletes =>
          /\ \A k \in Keys : store'[k] = Null
          /\ user' = NullUser /\ ~IsAuthenticatedSignal'
          /\ CtxGetAccessToken(store', now') = Null
          /\ ApiGetAccessToken(store', now').token = Null ]_vars

\* logout has run on a restored session while an exchange was outstanding.
C13_Witness ==
    /\ platform = "web" /\ nav = "logout" /\ clearStep = 0
    /\ loaded.ran /\ loaded.access = "acc_exp1"
    /\ store = EmptyStore /\ user = NullUser
    /\ \E s \in Slots : xch[s].pc = "posted"

\* handleCallback performs the last step of its save and returns.
SaveCompletes ==
    platform = "web" /\ running = "handleCallback" /\ saveStep.step = 2 /\ saveStep' = NoSave

\* The TokenSet a response carries; the refresh token is absent when the
\* response has none.
TokenSetOf(r) ==
    StoreOf(r.access_token, r.id_token, IF r.refresh_token = Undef THEN Null ELSE r.refresh_token)

\* C14: a save of a TokenSet whose access token is unexpired, followed at
\* once by load, yields the saved TokenSet, whatever the store held before.
C14_SaveLoadRoundTrip ==
    [][ (SaveCompletes /\ ~ExpiredByClaims(xch[saveStep.slot].resp.access_token, now)) =>
          LoadSession(store', now', NullUser).store = TokenSetOf(xch[saveStep.slot].resp) ]_vars

\* C15: after a successful exchange every token string in the store is one
\* of the new response; none is left from the earlier session.
C15_ReloginOverwrites ==
    [][ (SaveCompletes /\ xch[saveStep.slot].resp.access_token # Undef
                       /\ xch[saveStep.slot].resp.id_token # Undef) =>
          \A k \in Keys :
              store'[k] # Null =>
                  store'[k] \in {xch[saveStep.slot].resp.access_token,
                                 xch[saveStep.slot].resp.id_token,
                                 xch[saveStep.slot].resp.refresh_token} ]_vars

\* What load reports when there is no session: nothing stored, no user.
NoSession == [store |-> EmptyStore, user |-> NullUser]

\* C16: clear removes all three keys whatever the store held, a removal on
\* an already cleared store changes nothing, and a load right after a clear
\* reports no session.
C16_ClearThenLoad ==
    [][ /\ LogoutCompletes =>
              (store' = EmptyStore /\ LoadSession(store', now', NullUser) = NoSession)
        /\ (platform = "web" /\ clearStep' # clearStep /\ store = EmptyStore) =>
              store' = EmptyStore ]_vars

\* A restored session has been cleared by logout.
C16_Witness ==
    /\ platform = "web" /\ clearStep = 0 /\ nav = "logout"
    /\ loaded.ran /\ loaded.access = "acc_url_exp2"
    /\ store = EmptyStore

\* C17: after a load that found the access token absent or expired, a second
\* load changes nothing in the store and reports the same result.
C17_LoadIdempotent ==
    [][ (ConfiguredStartup /\ (store[ACCESS_TOKEN_KEY] = Null
                                 \/ ExpiredByClaims(store[ACCESS_TOKEN_KEY], now))) =>
          LoadSession(store', now', NullUser) = [store |-> store', user |-> user'] ]_vars

\* load has found an access token whose exp is a string and cleared the keys.
C17_Witness ==
    /\ platform = "web" /\ pagePc = "cb"
    /\ loaded.ran /\ loaded.access = "acc_strexp2"
    /\ store = EmptyStore /\ user = NullUser

\* C18: on an unconfigured instance no operation changes the stored tokens,
\* issues a token-endpoint POST, navigates or raises an error.
C18_UnconfiguredNoOp ==
    [][ (platform = "web" /\ ~isAuthConfigured(config)) =>
          /\ store' = store
          /\ posts' = posts
          /\ nav' = nav
          /\ errorDetail' \in {errorDetail, LoginWarning} ]_vars

\* C19: while configuration is missing no navigation to the authorization
\* URL is ever requested, and the login() that logs the warning leaves the
\* session state and the stored tokens as they were.
C19_LoginUnconfigured ==
    [][ (platform = "web" /\ ~isAuthConfigured(config)) =>
          /\ nav' # "login"
          /\ (errorDetail' = LoginWarning /\ errorDetail # LoginWarning) =>
                (store' = store /\ user' = user /\ isLoading' = isLoading
                 /\ posts' = posts /\ xch' = xch) ]_vars

\* login() has been called with no user pool configured: the warning is
\* logged and no navigation is pending.
C19_Witness ==
    /\ platform = "web" /\ config.userPoolId = "" /\ config.clientId # "" /\ config.domain # ""
    /\ pagePc = "ready" /\ errorDetail = LoginWarning /\ nav = "none"

ApiCallStep == platform = "web" /\ lastRequest' # lastRequest

\* C22: an api() call fails locally with 'Authentication required', sending
\* nothing, exactly when it is marked requireAuth and the accessor it
\* consults yields no token; unmarked, it is sent without an Authorization
\* header in that case; with a token it is sent with that token as bearer.
\* No token-endpoint request is made either way.
C22_ApiCallAuth ==
    [][ ApiCallStep =>
          LET token == ApiGetAccessToken(store, now).token
              req == lastRequest'
          IN  /\ req.made /\ req.at = now
              /\ (req.thrown = "Authentication required") <=> (req.requireAuth /\ token = Null)
              /\ req.sent <=> (req.thrown = "none")
              /\ (token = Null /\ ~req.requireAuth) => (req.sent /\ req.bearer = Null)
              /\ (token # Null) => (req.sent /\ req.bearer = token)
              /\ posts' = posts /\ xch' = xch ]_vars

\* A requireAuth call was made over a store without a usable access token
\* and failed locally.
C22_Witness ==
    /\ platform = "web" /\ lastRequest.made /\ lastRequest.requireAuth
    /\ lastRequest.thrown = "Authentication required" /\ ~lastRequest.sent
    /\ lastRequest.bearer = Null /\ store[ACCESS_TOKEN_KEY] = Null

\* C23: reading the access token for an outbound api() call adds, changes
\* or removes none of the three storage keys.
C23_ReadersLeaveStore ==
    [][ ApiCallStep => \A k \in Keys : store'[k] = store[k] ]_vars

\* The stored pair the mount effect accepts as a session: both tokens
\* present and the access token unexpired.
ValidSession(st, t) ==
    /\ Truthy(st[ID_TOKEN_KEY]) /\ Truthy(st[ACCESS_TOKEN_KEY])
    /\ ~isTokenExpired(st[ACCESS_TOKEN_KEY], t)

\* C24: between handlers, a present user is the projection of the stored
\* identity token, and the user is absent whenever the store holds no valid
\* session.
C24_UserDerivedFromStore ==
    (platform = "web" /\ running = "idle" /\ pagePc = "ready") =>
        /\ (user # NullUser => user = getUserFromToken(store[ID_TOKEN_KEY]))
        /\ (~ValidSession(store, now) => user = NullUser)

\* The token endpoint answered with a non-success status or with a body
\* that is not the JSON of a token response.
FailingResponse(r) ==
    r.kind = "http" /\ (~ResponseOk(r) \/ r.json # "object" \/ ~Truthy(r.access_token))

\* C26: when the exchange settles on a non-success or malformed response,
\* the error recorded for the caller carries the status and the body of
\* that response and is not merely logged, and the store is left as it was.
C26_ExchangeErrorSurfaced ==
    [][ \A s \in Slots :
          (platform = "web" /\ xch[s].pc = "responded" /\ xch'[s].pc # "responded"
             /\ FailingResponse(xch[s].resp)) =>
          /\ errorDetail'.status = xch[s].resp.status
          /\ errorDetail'.body = xch[s].resp.body
          /\ errorDetail'.where \notin {"console", "log"}
          /\ store' = store ]_vars

\* C25: a token that does not decode yields null claims, counts as expired
\* and projects to no user; the mount effect over such a stored token and
\* handleCallback over such an identity token end without a user and
\* without failing (the loading flag is cleared).
C25_UndecodableIsAbsent ==
    /\ \A token \in TokenStrings \cup {Null, Undef} :
         ~Decodable(token) =>
            /\ parseJwt(token) = NullPayload
            /\ \A t \in ClockValues : isTokenExpired(token, t)
            /\ getUserFromToken(token) = NullUser
    /\ [][ /\ (ConfiguredStartup /\ ~Decodable(store[ACCESS_TOKEN_KEY])) =>
                (user' = NullUser /\ store' = EmptyStore /\ ~isLoading')
           /\ (ConfiguredStartup /\ ~Decodable(store[ID_TOKEN_KEY])) =>
                (user' = NullUser /\ ~isLoading')
           /\ (SaveCompletes /\ ~Decodable(xch[saveStep.slot].resp.id_token)) =>
                (user' = NullUser /\ ~IsAuthenticatedSignal' /\ ~isLoading'
                 /\ running' = "idle") ]_vars

\* An exchange answered with an identity token that does not decode has
\* completed its save: the tokens are stored and there is no user.
C25_Witness ==
    /\ platform = "web" /\ lastDone.outcome = "success" /\ running = "idle"
    /\ store[ID_TOKEN_KEY] = "id_garbled" /\ store[ACCESS_TOKEN_KEY] = "acc_exp2"
    /\ posts # <<>> /\ user = NullUser /\ ~isLoading

\* The web page under the scheduling of the browser: an outstanding fetch
\* settles, and a continuation or handler that can run is run.
WebLiveSpec ==
    /\ WebSpec
    /\ WF_vars(\E s \in Slots : \E r \in Responses : NetworkRespond(s, r))
    /\ WF_vars(\E s \in Slots : WebExchangeSettle(s))
    /\ WF_vars(WebSaveStep)
    /\ WF_vars(WebLogoutStep)

\* C27: every exchange that was posted leaves: its slot is freed with the
\* loading flag cleared and no handler running, unless the page itself was
\* left by a navigation; and whichever way an exchange finishes (tokens
\* saved, non-2xx, exception, malformed body), the loading flag is cleared
\* on that step and the controller is authenticated or not.
C27_ExchangeLeaves ==
    /\ [][ \A s \in Slots :
             (platform = "web" /\ xch[s].pc \in {"responded", "saving"} /\ xch'[s].pc = "free") =>
                (~isLoading' /\ running' = "idle" /\ pagePc' = "ready"
                 /\ lastDone'.outcome \in {"success", "failure"}) ]_vars
    /\ \A s \in Slots :
         (platform = "web" /\ xch[s].pc = "posted") ~>
            ((xch[s].pc = "free" /\ ~isLoading /\ running = "idle") \/ pagePc = "gone")

\* An exchange whose fetch failed with a network exception has finished:
\* nothing is outstanding and the loading flag is cleared.
C27_Witness ==
    /\ platform = "web" /\ pagePc = "ready" /\ posts # <<>>
    /\ lastDone.outcome = "failure" /\ lastDone.status = 0
    /\ \A s \in Slots : xch[s].pc = "free"
    /\ ~isLoading /\ running = "idle"

EnvValues == {Undef, "", "value"}

\* C29: for every setting of the three variables, isAuthConfigured holds
\* exactly when the pool identifier, the client id and the domain are all
\* non-empty; the environment of the README's frontend example, which sets
\* the domain and the client id only, is not configured, and so is the
\* configuration of every page that runs with it.
C29_IsConfigured ==
    /\ \A p \in EnvValues : \A c \in EnvValues : \A d \in EnvValues :
         LET cfg == AUTH_CONFIG(EnvOf(p, c, d)) IN
         /\ isAuthConfigured(cfg) <=> (p = "value" /\ c = "value" /\ d = "value")
         /\ isAuthConfigured(cfg) <=> (cfg.userPoolId # "" /\ cfg.clientId # "" /\ cfg.domain # "")
    /\ ReadmeFrontendEnv.VITE_COGNITO_CLIENT_ID # Undef
    /\ ReadmeFrontendEnv.VITE_COGNITO_DOMAIN # Undef
    /\ ~isAuthConfigured(AUTH_CONFIG(ReadmeFrontendEnv))
    /\ platform = "web" =>
         /\ isAuthConfigured(config) <=>
               (config.userPoolId # "" /\ config.clientId # "" /\ config.domain # "")
         /\ config = AUTH_CONFIG(ReadmeFrontendEnv) => ~isAuthConfigured(config)

\* A page built with the README's example environment was loaded at
\* /callback?code=... over stored tokens and both mount effects have run:
\* the stored session was not restored and the code was not exchanged.
C29_Witness ==
    /\ platform = "web" /\ config = AUTH_CONFIG(ReadmeFrontendEnv)
    /\ config.clientId # "" /\ config.domain # "" /\ config.userPoolId = ""
    /\ pagePc = "ready" /\ location.path = "/callback" /\ location.code = "abc123"
    /\ store = StoreOf("acc_exp1", "id_u1", "ref_1") /\ ~loaded.ran
    /\ user = NullUser /\ posts = <<>>

\* A redirect on REDIRECT_URI carrying the code c reaches the activity: as
\* the launch intent handled by onCreate, or through onNewIntent.
CallbackArrives(c) ==
    LET callback == [path |-> REDIRECT_URI, code |-> c] IN
    \/ pagePc = "init" /\ pagePc' # "init" /\ location = callback
    \/ pagePc # "init" /\ location' # location /\ location' = callback

\* C21: when a redirect carrying a code arrives on the redirect URI of the
\* authorization request while the controller is unauthenticated and no
\* exchange is under way, the exchange is entered and the token endpoint is
\* POSTed that code with that redirect URI.
C21_CallbackAccepted ==
    [][ \A c \in Codes :
          (platform = "androidApp" /\ CallbackArrives(c)
             /\ ~isAuthenticated /\ store = EmptyStore
             /\ \A s \in Slots : xch[s].pc = "free") =>
          /\ posts' = Append(posts, [code |-> c, redirect_uri |-> REDIRECT_URI])
          /\ \E s \in Slots : xch'[s].pc = "posted" /\ xch'[s].code = c ]_vars

\* C31: between handlers, whenever the page publishes isAuthenticated the
\* store holds an access token that the accessor yields (present and
\* unexpired).
C31_AuthenticatedHasToken ==
    (platform = "web" /\ running = "idle" /\ IsAuthenticatedSignal) =>
        CtxGetAccessToken(store, now) # Null

\* C32: once logout() has returned (its navigation to the provider's logout
\* page is requested and no callback can reach this page any more), the
\* store is empty and there is no user, whatever an exchange that was
\* outstanding at that time does afterwards.
C32_LogoutFinal ==
    (platform = "web" /\ nav = "logout" /\ running = "idle") =>
        (store = EmptyStore /\ user = NullUser /\ ~IsAuthenticatedSignal)

\* The codes POSTed so far.
PostedCodes == {posts[i].code : i \in DOMAIN posts}

\* C33: a code whose exchange is over is not POSTed a second time: a POST
\* issued while no exchange is outstanding carries a code that was never
\* POSTed before.
C33_CodePostedOnce ==
    [][ (platform = "ios" /\ Len(posts') = Len(posts) + 1
           /\ \A s \in Slots : xch[s].pc = "free") =>
          posts'[Len(posts')].code \notin PostedCodes ]_vars

\* C34: isLoading is true in every state in which a token-endpoint POST
\* has been issued and not yet answered.
C34_LoadingTracksExchange ==
    (platform = "ios" /\ \E s \in Slots : xch[s].pc = "posted") => isLoading

\* C35: when the mount effect of a configured page, or the save of an
\* exchange, ends without a user, none of the three keys is left stored.
C35_NoOrphanedTokens ==
    [][ ((ConfiguredStartup \/ SaveCompletes) /\ user' = NullUser) =>
          \A k \in Keys : store'[k] = Null ]_vars

\* C36: over every store and clock value the page can be in, the accessor
\* of the context and the accessor of the API client yield the same token,
\* and the API client's leaves the store as the context's does (unchanged).
C36_AccessorsAgree ==
    platform = "web" =>
        /\ ApiGetAccessToken(store, now).token = CtxGetAccessToken(store, now)
        /\ ApiGetAccessToken(store, now).store = store
====
